---- MODULE Spec2Model ----
(***************************************************************************)
(* Model of src/src/api/chains/ton/util/apiV3.ts: the transaction fetcher  *)
(* (fetchTransactions / parseRawTransaction), the address resolver         *)
(* (fetchAddressBook / fixAddressFormat) and the remote calls they issue.  *)
(*                                                                         *)
(* JavaScript values are modelled as follows.  An optional value is a      *)
(* sequence of length at most one: <<>> is `undefined`, <<v>> is v.  An    *)
(* empty or null string is "".  An object is a record (a function on its   *)
(* keys); an array is a sequence; a BigInt is an integer.                  *)
(***************************************************************************)
EXTENDS Integers, Sequences, FiniteSets, TLC

VARIABLES
    pc,         \* position of the one invocation being executed
    options,    \* the arguments of the invocation
    chunks,     \* fetchAddressBook: the value of `chunks`
    requests,   \* the remote calls issued so far, in order of issue
    promises,   \* the state of the promise of each issued call
    responses,  \* the value each fulfilled call resolved with
    parsed,     \* fetchTransactions: the value of rawTransactions.map(...)
    result,     \* the value the invocation returned
    error       \* the error the invocation failed with

vars == <<pc, options, chunks, requests, promises, responses, parsed, result, error>>

----------------------------------------------------------------------------
(* Bounds of the model *)

MaxLimit == 2          \* largest `limit` a caller passes to fetchTransactions
MaxOutMsgs == 3        \* longest out_msgs list of a raw transaction
MaxAddresses == 257    \* longest address list passed to fetchAddressBook
MaxHalfSeconds == 6    \* timestamps range over 0, 500, ..., 500 * MaxHalfSeconds ms

----------------------------------------------------------------------------
(* JavaScript helpers *)

Undefined == <<>>
Some(v) == <<v>>
Truthy(flag) == flag = Some(TRUE)

Min(a, b) == IF a <= b THEN a ELSE b
Range(s) == {s[i] : i \in DOMAIN s}

RECURSIVE Flat(_)
\* Array.prototype.flat() on an array of arrays
FlatDropLast(arrays) ==
    IF Len(arrays) <= 1 THEN <<>> ELSE Head(arrays) \o Flat(Tail(arrays))
Flat(arrays) ==
    IF arrays = <<>> THEN <<>> ELSE Head(arrays) \o Flat(Tail(arrays))

\* util/iteratees omitUndefined: the object without its undefined-valued keys
omitUndefined(obj) ==
    [k \in {f \in DOMAIN obj : obj[f] # Undefined} |-> obj[k][1]]

\* util/iteratees split: consecutive slices of chunkSize elements
split(array, chunkSize) ==
    [c \in 1..((Len(array) + chunkSize - 1) \div chunkSize) |->
        SubSeq(array, (c - 1) * chunkSize + 1, Min(c * chunkSize, Len(array)))]

\* ./index stringifyTxId: the composite id of a logical-time / hash pair
stringifyTxId(lt, hash) == ToString(lt) \o ":" \o hash

\* ./tonCore toBase64Address: the canonical form of a raw address
toBase64Address(address) == "b64(" \o address \o ")"

----------------------------------------------------------------------------
(* apiV3.ts *)

ADDRESS_BOOK_CHUNK_SIZE == 128

msToSec(ms) == ms \div 1000

\* start_utime: fromTimestamp && msToSec(fromTimestamp) + (!shouldIncludeFrom ? 1 : 0)
StartUtime(o) ==
    IF o.fromTimestamp = Undefined THEN Undefined
    ELSE IF o.fromTimestamp[1] = 0 THEN Some(0)
    ELSE Some(msToSec(o.fromTimestamp[1]) + (IF ~Truthy(o.shouldIncludeFrom) THEN 1 ELSE 0))

\* end_utime: toTimestamp && msToSec(toTimestamp) - (!shouldIncludeTo ? 1 : 0)
EndUtime(o) ==
    IF o.toTimestamp = Undefined THEN Undefined
    ELSE IF o.toTimestamp[1] = 0 THEN Some(0)
    ELSE Some(msToSec(o.toTimestamp[1]) - (IF ~Truthy(o.shouldIncludeTo) THEN 1 ELSE 0))

TransactionsRequest(o) ==
    [path |-> "/transactions",
     account |-> o.address,
     limit |-> o.limit,
     start_utime |-> StartUtime(o),
     end_utime |-> EndUtime(o),
     sort |-> "desc"]

getRawBody(msg) ==
    IF msg.message_content = Undefined THEN Undefined
    ELSE Some(msg.message_content[1].body)

\* const isIncoming = !!rawTx.in_msg.source
IsIncoming(rawTx) == rawTx.in_msg.source # ""

\* const msgs = isIncoming ? [rawTx.in_msg] : rawTx.out_msgs
Msgs(rawTx) == IF IsIncoming(rawTx) THEN <<rawTx.in_msg>> ELSE rawTx.out_msgs

\* addressBook[address].user_friendly throws a TypeError when addressBook[address]
\* is undefined
LookupNeverThrows(addressBook, address) == FALSE
LookupThrows(addressBook, address) == address \notin DOMAIN addressBook

UserFriendly(addressBook, address) ==
    IF address \in DOMAIN addressBook
    THEN Some(addressBook[address].user_friendly)
    ELSE Undefined

\* txId: msgs.length > 1 ? `${txId}:${i + 1}` : txId   (i is the 0-based index)
RecordTxIdZeroBased(txId, n, i) ==
    IF n > 1 THEN txId \o ":" \o ToString(i) ELSE txId
RecordTxId(txId, n, i) ==
    IF n > 1 THEN txId \o ":" \o ToString(i + 1) ELSE txId

\* amount: isIncoming ? BigInt(value) : -BigInt(value)
AmountUnsigned(isIncoming, value) == value
Amount(isIncoming, value) == IF isIncoming THEN value ELSE -value

\* shouldHide: exitCode ? true : undefined
ShouldHideNever(exitCode) == Undefined
ShouldHide(exitCode) ==
    IF exitCode # Undefined /\ exitCode[1] # 0 THEN Some(TRUE) ELSE Undefined

\* the callback of msgs.map in parseRawTransaction; j is the 1-based position
ParsedMessage(rawTx, addressBook, j) ==
    LET msgs == Msgs(rawTx)
        msg == msgs[j]
        isIncoming == IsIncoming(rawTx)
    IN omitUndefined(
        [txId |-> Some(RecordTxId(stringifyTxId(rawTx.lt, rawTx.hash), Len(msgs), j - 1)),
         timestamp |-> Some(rawTx.now * 1000),
         isIncoming |-> Some(isIncoming),
         fromAddress |-> UserFriendly(addressBook, msg.source),
         toAddress |-> UserFriendly(addressBook, msg.destination),
         amount |-> Some(Amount(isIncoming, msg.value)),
         slug |-> Some("toncoin"),
         fee |-> Some(rawTx.total_fees),
         inMsgHash |-> Some(rawTx.in_msg.hash),
         normalizedAddress |->
            Some(toBase64Address(IF isIncoming THEN msg.source ELSE msg.destination)),
         shouldHide |-> ShouldHide(rawTx.description.compute_ph.exit_code),
         extraData |-> Some([body |-> getRawBody(msg)])])

\* parseRawTransaction: the records of one raw transaction, or a thrown TypeError
parseRawTransaction(rawTx, addressBook) ==
    LET msgs == Msgs(rawTx)
    IN IF \E j \in 1..Len(msgs) :
            \/ LookupThrows(addressBook, msgs[j].source)
            \/ LookupThrows(addressBook, msgs[j].destination)
       THEN [threw |-> TRUE, records |-> <<>>]
       ELSE [threw |-> FALSE,
             records |-> [j \in 1..Len(msgs) |-> ParsedMessage(rawTx, addressBook, j)]]

----------------------------------------------------------------------------
(* The remote service: the pages and address books it may answer with *)

ExitCodes == {Undefined, Some(0), Some(1)}

\* what the service may vary in one raw transaction
Shapes == [source : {"", "A"}, exit_code : ExitCodes, nOut : 0..MaxOutMsgs]

\* the raw transaction at position i of a page (sorted by descending time)
RawTx(i, shape) ==
    [now |-> 2000000 - i,
     lt |-> 50 - i,
     hash |-> "h" \o ToString(i),
     total_fees |-> 10 * i,
     description |-> [compute_ph |-> [exit_code |-> shape.exit_code]],
     in_msg |-> [source |-> shape.source, destination |-> "W", value |-> 5 * i,
                 hash |-> "in" \o ToString(i),
                 message_content |-> Some([body |-> "comment"])],
     out_msgs |-> [j \in 1..shape.nOut |->
                    [source |-> "W",
                     destination |-> IF j % 2 = 1 THEN "B" ELSE "A",
                     value |-> 4 * j - 1,
                     hash |-> "out" \o ToString(j),
                     message_content |-> Undefined]]]

\* the page the service returns when its raw transactions have the given shapes
PageOf(shapes) == [i \in DOMAIN shapes |-> RawTx(i, shapes[i])]

BookOf(addresses) == [a \in addresses |-> [user_friendly |-> "UQ-" \o a]]

\* the inline address book: complete, or lacking one address
InlineAddressBooks ==
    {BookOf({"W", "A", "B"} \ missing) : missing \in {{}, {"W"}, {"A"}, {"B"}}}

----------------------------------------------------------------------------
(* fetchTransactions *)

Init ==
    /\ pc = "idle"
    /\ options = Undefined
    /\ chunks = <<>>
    /\ requests = <<>>
    /\ promises = <<>>
    /\ responses = <<>>
    /\ parsed = <<>>
    /\ result = Undefined
    /\ error = ""

\* the caller's options
TimeStamps == {Undefined} \cup {Some(500 * t) : t \in 0..MaxHalfSeconds}
Flags == {Undefined, Some(TRUE), Some(FALSE)}

Options(limits, froms, tos, flags) ==
    [address : {"W"}, limit : limits,
     fromTimestamp : froms, toTimestamp : tos,
     shouldIncludeFrom : flags, shouldIncludeTo : flags]

\* lines 28-42: the options are read and the one remote call is issued
FetchTransactions(o) ==
    /\ pc = "idle"
    /\ pc' = "tx_await"
    /\ options' = o
    /\ requests' = <<TransactionsRequest(o)>>
    /\ promises' = <<"pending">>
    /\ UNCHANGED <<chunks, responses, parsed, result, error>>

\* lines 44-53: the call resolved with `data`; the page is parsed and flattened
TransactionsResponse(data) ==
    /\ pc = "tx_await"
    /\ promises' = <<"fulfilled">>
    /\ responses' = <<data>>
    /\ LET rawTransactions == data.transactions
           mapped == [i \in 1..Len(rawTransactions) |->
                        parseRawTransaction(rawTransactions[i], data.address_book)]
       IN IF Len(rawTransactions) = 0
          THEN /\ pc' = "tx_returned"
               /\ result' = <<>>
               /\ UNCHANGED <<parsed, error>>
          ELSE IF \E i \in 1..Len(mapped) : mapped[i].threw
          THEN /\ pc' = "tx_failed"
               /\ error' = "TypeError"
               /\ UNCHANGED <<parsed, result>>
          ELSE /\ pc' = "tx_returned"
               /\ parsed' = [i \in 1..Len(mapped) |-> mapped[i].records]
               /\ result' = Flat(parsed')
               /\ UNCHANGED error
    /\ UNCHANGED <<options, chunks, requests>>

\* the call rejected: the rejection propagates out of the await
TransactionsFailure ==
    /\ pc = "tx_await"
    /\ promises' = <<"rejected">>
    /\ pc' = "tx_failed"
    /\ error' = "TransportError"
    /\ UNCHANGED <<options, chunks, requests, responses, parsed, result>>

\* the service answers a /transactions request with at most `limit` raw transactions
ServeTransactions ==
    /\ pc = "tx_await"
    /\ \E n \in 0..requests[1].limit :
          \E shapes \in [1..n -> Shapes], book \in InlineAddressBooks :
              TransactionsResponse([transactions |-> PageOf(shapes), address_book |-> book])

----------------------------------------------------------------------------
(* fetchAddressBook *)

\* the address lists a caller may pass: n addresses, pairwise distinct, or with the
\* last one repeating the first
AddressList(n, repeated) ==
    [i \in 1..n |-> IF repeated /\ i = n THEN "a1" ELSE "a" \o ToString(i)]

AddressBookRequest(address) == [path |-> "/addressBook", address |-> address]

\* results.reduce((acc, value) => Object.assign(acc, value), {}): later values
\* overwrite earlier ones key by key
RECURSIVE ReduceAssign(_, _)
ReduceAssignFirstOnly(acc, values) ==
    IF values = <<>> THEN acc ELSE Head(values) @@ acc
ReduceAssign(acc, values) ==
    IF values = <<>> THEN acc ELSE ReduceAssign(Head(values) @@ acc, Tail(values))

\* Promise.all: rejected as soon as one promise rejects, fulfilled once all fulfilled
PromiseAllSettled(ps) ==
    IF \A i \in DOMAIN ps : ps[i] # "pending" THEN "fulfilled" ELSE "pending"
PromiseAll(ps) ==
    IF \E i \in DOMAIN ps : ps[i] = "rejected" THEN "rejected"
    ELSE IF \A i \in DOMAIN ps : ps[i] = "fulfilled" THEN "fulfilled"
    ELSE "pending"

\* the values of the fulfilled promises, in the order of the promises
Fulfilled(ps, values) ==
    LET RECURSIVE pick(_)
        pick(i) == IF i > Len(ps) THEN <<>>
                   ELSE IF ps[i] = "fulfilled" THEN <<values[i]>> \o pick(i + 1)
                   ELSE pick(i + 1)
    IN pick(1)

\* line 123, and the start of chunks.map at line 125
FetchAddressBook(addresses) ==
    /\ pc = "idle"
    /\ options' = [addresses |-> addresses]
    /\ chunks' = split(addresses, ADDRESS_BOOK_CHUNK_SIZE)
    /\ IF chunks' = <<>>
       THEN /\ pc' = "ab_returned"
            /\ result' = ReduceAssign(<<>>, <<>>)
       ELSE /\ pc' = "ab_issuing"
            /\ UNCHANGED result
    /\ UNCHANGED <<requests, promises, responses, parsed, error>>

\* lines 125-129: one iteration of chunks.map issues the call of the next chunk;
\* after the last one the function awaits Promise.all
IssueBatchCall ==
    /\ pc = "ab_issuing"
    /\ LET c == Len(requests) + 1
       IN /\ requests' = Append(requests, AddressBookRequest(chunks[c]))
          /\ promises' = Append(promises, "pending")
          /\ responses' = Append(responses, <<>>)
          /\ pc' = IF c = Len(chunks) THEN "ab_await" ELSE "ab_issuing"
    /\ UNCHANGED <<options, chunks, parsed, result, error>>

\* a promise settles; callbacks run only once the synchronous map has finished.
\* Lines 125 and 131-133: the await ends with the outcome of Promise.all
Settle(c, state, value) ==
    /\ pc \in {"ab_await", "ab_failed"}
    /\ c \in DOMAIN promises
    /\ promises[c] = "pending"
    /\ promises' = [promises EXCEPT ![c] = state]
    /\ responses' = [responses EXCEPT ![c] = value]
    /\ IF pc = "ab_await" /\ PromiseAll(promises') = "fulfilled"
       THEN /\ pc' = "ab_returned"
            /\ result' = ReduceAssign(<<>>, Fulfilled(promises', responses'))
            /\ UNCHANGED error
       ELSE IF pc = "ab_await" /\ PromiseAll(promises') = "rejected"
       THEN /\ pc' = "ab_failed"
            /\ error' = "TransportError"
            /\ UNCHANGED result
       ELSE UNCHANGED <<pc, result, error>>
    /\ UNCHANGED <<options, chunks, requests, parsed>>

\* the service answers a batch with an entry for every address of the batch
BatchFulfilled ==
    \E c \in DOMAIN promises :
        Settle(c, "fulfilled", BookOf(Range(requests[c].address)))

\* the service answers a batch without the entry of the batch's first address
BatchFulfilledIncomplete ==
    \E c \in DOMAIN promises :
        Settle(c, "fulfilled", BookOf(Range(requests[c].address) \ {requests[c].address[1]}))

\* a batch call fails in the transport
BatchRejected ==
    \E c \in DOMAIN promises : Settle(c, "rejected", <<>>)

----------------------------------------------------------------------------
(* fixAddressFormat *)

\* line 137
FixAddressFormat(address) ==
    /\ pc = "idle"
    /\ pc' = "fix_await"
    /\ options' = [address |-> address]
    /\ requests' = <<AddressBookRequest(address)>>
    /\ promises' = <<"pending">>
    /\ UNCHANGED <<chunks, responses, parsed, result, error>>

\* line 138: return result.address_book[address]
FixAddressResponse(data) ==
    /\ pc = "fix_await"
    /\ promises' = <<"fulfilled">>
    /\ responses' = <<data>>
    /\ pc' = "fix_returned"
    /\ result' = IF options.address \in DOMAIN data.address_book
                 THEN Some(data.address_book[options.address])
                 ELSE Undefined
    /\ UNCHANGED <<options, chunks, requests, parsed, error>>

FixAddressFailure ==
    /\ pc = "fix_await"
    /\ promises' = <<"rejected">>
    /\ pc' = "fix_failed"
    /\ error' = "TransportError"
    /\ UNCHANGED <<options, chunks, requests, responses, parsed, result>>

\* the service answers with a book that may or may not hold the address asked for
ServeAddress ==
    \E known \in SUBSET {"W", "A"} :
        FixAddressResponse([address_book |-> [a \in known |-> "UQ-" \o a]])

----------------------------------------------------------------------------
(* Specifications *)

CallFetchTransactions ==
    \E o \in Options(1..MaxLimit, {Undefined}, {Undefined}, {Undefined}) :
        FetchTransactions(o)

CallFetchAddressBook ==
    \E n \in 0..MaxAddresses, repeated \in BOOLEAN :
        (repeated => n >= 2) /\ FetchAddressBook(AddressList(n, repeated))

CallFixAddressFormat ==
    \E address \in {"W", "A"} : FixAddressFormat(address)

Next ==
    \/ CallFetchTransactions
    \/ ServeTransactions
    \/ TransactionsFailure
    \/ CallFetchAddressBook
    \/ IssueBatchCall
    \/ BatchFulfilled
    \/ BatchFulfilledIncomplete
    \/ BatchRejected
    \/ CallFixAddressFormat
    \/ ServeAddress
    \/ FixAddressFailure

Spec == Init /\ [][Next]_vars

\* fetchTransactions alone, over every combination of time bounds and flags
CallFetchTransactionsInWindow ==
    \E o \in Options({1}, TimeStamps, TimeStamps, Flags) : FetchTransactions(o)

NextTime ==
    \/ CallFetchTransactionsInWindow
    \/ ServeTransactions
    \/ TransactionsFailure

SpecTime == Init /\ [][NextTime]_vars

----------------------------------------------------------------------------
(* Properties of fetchTransactions / parseRawTransaction *)

\* the page the /transactions call resolved with, and its inline address book
Page == responses[1].transactions
InlineBook == responses[1].address_book

\* the messages the records of a raw transaction stand for
OutputMessages(rawTx) ==
    IF rawTx.in_msg.source # "" THEN <<rawTx.in_msg>> ELSE rawTx.out_msgs
OutputCount(rawTx) == Len(OutputMessages(rawTx))

\* the number of records of the raw transactions before position i of the page
RECURSIVE Offset(_)
Offset(i) == IF i <= 1 THEN 0 ELSE Offset(i - 1) + OutputCount(Page[i - 1])

\* C1 as stated: a raw transaction with k >= 1 output messages yields k records;
\* for k = 1 the id is the base id; for k > 1 the first record keeps the
\* unsuffixed base id and the record at 1-based position i >= 2 has id base:i.
C1_FirstRecordUnsuffixed ==
    pc = "tx_returned" =>
        \A i \in 1..Len(Page) :
            LET k == OutputCount(Page[i])
                base == stringifyTxId(Page[i].lt, Page[i].hash)
            IN k >= 1 =>
                /\ Len(parsed[i]) = k
                /\ parsed[i][1].txId = base
                /\ \A j \in 2..k : parsed[i][j].txId = base \o ":" \o ToString(j)

\* C1 as amended: a raw transaction with k >= 1 output messages yields k records;
\* for k = 1 the id is the base id; for k > 1 every record, the first included,
\* has id base:i with i its 1-based position.
C1_RecordIds ==
    pc = "tx_returned" =>
        \A i \in 1..Len(Page) :
            LET k == OutputCount(Page[i])
                base == stringifyTxId(Page[i].lt, Page[i].hash)
            IN k >= 1 =>
                /\ Len(parsed[i]) = k
                /\ k = 1 => parsed[i][1].txId = base
                /\ k > 1 => \A j \in 1..k : parsed[i][j].txId = base \o ":" \o ToString(j)

C1_Witness ==
    /\ pc = "tx_returned"
    /\ \E i \in 1..Len(Page) : OutputCount(Page[i]) = 1
    /\ \E i \in 1..Len(Page) : OutputCount(Page[i]) >= 2 /\ Len(parsed[i]) >= 2

\* C2: a raw transaction whose inbound source is empty is outgoing and its records
\* are those of its outbound messages, each with isIncoming = false and
\* amount = -value; one whose inbound source is non-empty is incoming and has
\* exactly one record, that of the inbound message, with isIncoming = true and
\* amount = +value.  The magnitude of amount is the message's value.
C2_Direction ==
    pc = "tx_returned" =>
        \A i \in 1..Len(Page) :
            LET rawTx == Page[i]
                Abs(x) == IF x < 0 THEN -x ELSE x
            IN /\ rawTx.in_msg.source = "" =>
                    /\ Len(parsed[i]) = Len(rawTx.out_msgs)
                    /\ \A j \in 1..Len(rawTx.out_msgs) :
                        /\ parsed[i][j].isIncoming = FALSE
                        /\ parsed[i][j].amount = -rawTx.out_msgs[j].value
                        /\ Abs(parsed[i][j].amount) = rawTx.out_msgs[j].value
                        /\ parsed[i][j].toAddress
                             = InlineBook[rawTx.out_msgs[j].destination].user_friendly
                        /\ parsed[i][j].normalizedAddress
                             = toBase64Address(rawTx.out_msgs[j].destination)
               /\ rawTx.in_msg.source # "" =>
                    /\ Len(parsed[i]) = 1
                    /\ parsed[i][1].isIncoming = TRUE
                    /\ parsed[i][1].amount = rawTx.in_msg.value
                    /\ Abs(parsed[i][1].amount) = rawTx.in_msg.value
                    /\ parsed[i][1].fromAddress = InlineBook[rawTx.in_msg.source].user_friendly
                    /\ parsed[i][1].normalizedAddress = toBase64Address(rawTx.in_msg.source)

C2_Witness ==
    /\ pc = "tx_returned"
    /\ \E i \in 1..Len(Page) :
          Page[i].in_msg.source # "" /\ Len(Page[i].out_msgs) >= 2 /\ Len(parsed[i]) = 1
    /\ \E i \in 1..Len(Page) :
          Page[i].in_msg.source = "" /\ Len(parsed[i]) >= 2

\* C3: the result is the in-order concatenation of the records of the raw
\* transactions: page order, then message order; a raw transaction without
\* output messages contributes nothing; the length of the result is the sum of
\* the message counts (0 for an empty page); `limit` is sent unchanged.
C3_Flattened ==
    /\ pc \in {"tx_await", "tx_returned", "tx_failed"} =>
            /\ Len(requests) = 1
            /\ requests[1].limit = options.limit
            /\ requests[1].sort = "desc"
    /\ pc = "tx_returned" =>
            /\ Len(result) = Offset(Len(Page) + 1)
            /\ Len(Page) = 0 => result = <<>>
            /\ \A i \in 1..Len(Page) :
                \A j \in 1..OutputCount(Page[i]) :
                    LET rec == result[Offset(i) + j]
                        msg == OutputMessages(Page[i])[j]
                    IN /\ rec = parsed[i][j]
                       /\ rec.timestamp = Page[i].now * 1000
                       /\ rec.inMsgHash = Page[i].in_msg.hash
                       /\ rec.fromAddress = InlineBook[msg.source].user_friendly
                       /\ rec.toAddress = InlineBook[msg.destination].user_friendly
                       /\ rec.amount \in {msg.value, -msg.value}

C3_Witness ==
    /\ pc = "tx_returned"
    /\ Len(Page) = 2
    /\ Len(result) > options.limit
    /\ \E i \in 1..Len(Page) : OutputCount(Page[i]) = 0

\* C5: a record has shouldHide = true exactly when the compute-phase exit code of
\* its raw transaction is non-zero, and lacks the field otherwise; the records of
\* one raw transaction agree on shouldHide, timestamp (= now * 1000) and fee.
C5_ShouldHide ==
    pc = "tx_returned" =>
        \A i \in 1..Len(Page) :
            LET exitCode == Page[i].description.compute_ph.exit_code
                nonZero == exitCode # Undefined /\ exitCode[1] # 0
            IN \A j \in 1..Len(parsed[i]) :
                /\ nonZero => "shouldHide" \in DOMAIN parsed[i][j] /\ parsed[i][j].shouldHide = TRUE
                /\ ~nonZero => "shouldHide" \notin DOMAIN parsed[i][j]
                /\ parsed[i][j].timestamp = Page[i].now * 1000
                /\ parsed[i][j].fee = Page[i].total_fees
                /\ ("shouldHide" \in DOMAIN parsed[i][j]) = ("shouldHide" \in DOMAIN parsed[i][1])
                /\ parsed[i][j].timestamp = parsed[i][1].timestamp
                /\ parsed[i][j].fee = parsed[i][1].fee

C5_Witness ==
    /\ pc = "tx_returned"
    /\ \E i \in 1..Len(Page) :
          /\ Page[i].description.compute_ph.exit_code = Some(1)
          /\ Len(parsed[i]) >= 2
    /\ \E i \in 1..Len(Page) :
          /\ Page[i].description.compute_ph.exit_code = Some(0)
          /\ Len(parsed[i]) >= 1

\* some message a record would stand for names an address the inline book lacks
MissingEntry ==
    \E i \in 1..Len(Page) :
        \E j \in 1..OutputCount(Page[i]) :
            LET msg == OutputMessages(Page[i])[j]
            IN msg.source \notin DOMAIN InlineBook \/ msg.destination \notin DOMAIN InlineBook

\* C6: when the source or destination of a message has no entry in the inline
\* address book, fetchTransactions fails; it never returns a record that lacks
\* fromAddress or toAddress; and it issues no second remote call.
C6_MissingEntryFails ==
    /\ pc \in {"tx_returned", "tx_failed"} /\ promises[1] = "fulfilled" /\ MissingEntry =>
            pc = "tx_failed" /\ error = "TypeError"
    /\ pc = "tx_returned" =>
            \A r \in 1..Len(result) :
                {"fromAddress", "toAddress"} \subseteq DOMAIN result[r]
    /\ pc \in {"tx_await", "tx_returned", "tx_failed"} => Len(requests) = 1

C6_Witness ==
    /\ pc = "tx_failed"
    /\ promises[1] = "fulfilled"
    /\ MissingEntry
    /\ error = "TypeError"
    /\ Len(Page) = 2
    /\ "W" \in DOMAIN InlineBook

----------------------------------------------------------------------------
(* Properties of the time window sent by fetchTransactions *)

\* what the service does with the bounds: an event at `now` seconds is returned
\* when start_utime <= now <= end_utime, an unset bound admitting everything
LowerAdmits(request, now) ==
    request.start_utime = Undefined \/ request.start_utime[1] <= now
UpperAdmits(request, now) ==
    request.end_utime = Undefined \/ now <= request.end_utime[1]

\* C4: for a non-negative whole-second T, fromTimestamp = T with
\* shouldIncludeFrom = false sends a start_utime that excludes an event at T and
\* admits one at T + 1000; toTimestamp = T with shouldIncludeTo = false sends an
\* end_utime that excludes an event at T and admits one at T - 1000.
C4_ExclusiveBounds ==
    pc = "tx_await" =>
        /\ (/\ options.fromTimestamp # Undefined
            /\ options.fromTimestamp[1] % 1000 = 0
            /\ options.shouldIncludeFrom = Some(FALSE)) =>
                LET T == options.fromTimestamp[1] \div 1000
                IN ~LowerAdmits(requests[1], T) /\ LowerAdmits(requests[1], T + 1)
        /\ (/\ options.toTimestamp # Undefined
            /\ options.toTimestamp[1] % 1000 = 0
            /\ options.shouldIncludeTo = Some(FALSE)) =>
                LET T == options.toTimestamp[1] \div 1000
                IN ~UpperAdmits(requests[1], T) /\ UpperAdmits(requests[1], T - 1)

\* C10: whatever the millisecond bounds and the flags, an event strictly inside
\* the caller's window (fromTimestamp < now * 1000 < toTimestamp) lies inside the
\* window sent (start_utime <= now <= end_utime).
C10_WindowKeepsInterior ==
    pc = "tx_await" =>
        \A now \in 0..MaxHalfSeconds :
            (/\ options.fromTimestamp # Undefined => options.fromTimestamp[1] < now * 1000
             /\ options.toTimestamp # Undefined => now * 1000 < options.toTimestamp[1])
            => LowerAdmits(requests[1], now) /\ UpperAdmits(requests[1], now)

----------------------------------------------------------------------------
(* Properties of fixAddressFormat *)

\* C7: fixAddressFormat returns the entry of the response keyed by the address
\* when it is present, and fails (never returns an absent value) when it is not.
C7_FixAddressLookup ==
    /\ pc = "fix_returned" /\ options.address \in DOMAIN responses[1].address_book =>
            result = Some(responses[1].address_book[options.address])
    /\ pc = "fix_returned" => result # Undefined
    /\ (/\ pc \in {"fix_returned", "fix_failed"}
        /\ promises[1] = "fulfilled"
        /\ options.address \notin DOMAIN responses[1].address_book) => pc = "fix_failed"

----------------------------------------------------------------------------
(* Properties of fetchAddressBook *)

BatchAddresses == [c \in 1..Len(requests) |-> requests[c].address]

AllBatchesComplete ==
    \A c \in 1..Len(requests) :
        promises[c] = "fulfilled" /\ DOMAIN responses[c] = Range(requests[c].address)

\* the batch calls: ceil(N / 128) of them, each of 1 to 128 addresses, together
\* the input in order, all issued before any promise settles
BatchCalls ==
    /\ pc \in {"ab_await", "ab_returned", "ab_failed"} =>
            /\ Len(requests) = (Len(options.addresses) + 127) \div 128
            /\ \A c \in 1..Len(requests) :
                    Len(requests[c].address) \in 1..128 /\ requests[c].path = "/addressBook"
            /\ Flat(BatchAddresses) = options.addresses
    /\ pc = "ab_issuing" => \A c \in 1..Len(promises) : promises[c] = "pending"

\* C8 as stated: N addresses are sent in ceil(N / 128) batch calls of at most 128
\* addresses that partition the input, all issued before any response is awaited,
\* and when every requested address is answered the merged mapping has N keys.
C8_KeysEqualInputLength ==
    /\ BatchCalls
    /\ pc = "ab_returned" /\ AllBatchesComplete =>
            Cardinality(DOMAIN result) = Len(options.addresses)

\* C8 as amended: N addresses are sent in ceil(N / 128) batch calls of at most 128
\* addresses that make up the input in order, all issued before any response is
\* awaited, and when every requested address is answered the merged mapping has
\* one key for each distinct input address, with the entry the service gave: N
\* keys when the N addresses are pairwise distinct.
C8_KeysAreInputAddresses ==
    /\ BatchCalls
    /\ pc = "ab_returned" /\ AllBatchesComplete =>
            /\ DOMAIN result = Range(options.addresses)
            /\ \A a \in DOMAIN result : result[a] = [user_friendly |-> "UQ-" \o a]
            /\ (\A i, j \in 1..Len(options.addresses) :
                    i # j => options.addresses[i] # options.addresses[j])
                => Cardinality(DOMAIN result) = Len(options.addresses)

C8_Witness ==
    /\ pc = "ab_returned"
    /\ Len(requests) = 3
    /\ AllBatchesComplete
    /\ Len(options.addresses) > 256
    /\ Cardinality(DOMAIN result) = Len(options.addresses)

\* C9: once one batch call has failed the operation has failed and returns no
\* mapping, whatever the other batches do and in whatever order; it returns only
\* after every batch call has succeeded; no batch is requested twice.
C9_AnyFailureFails ==
    /\ pc \in {"ab_issuing", "ab_await", "ab_returned", "ab_failed"} =>
            /\ (\E c \in 1..Len(promises) : promises[c] = "rejected") =>
                    pc = "ab_failed" /\ result = Undefined /\ error = "TransportError"
            /\ Len(requests) <= Len(chunks)
            /\ \A c \in 1..Len(requests) : requests[c].address = chunks[c]
    /\ pc = "ab_returned" =>
            /\ Len(promises) = Len(chunks)
            /\ \A c \in 1..Len(promises) : promises[c] = "fulfilled"

C9_Witness ==
    /\ pc = "ab_failed"
    /\ Len(promises) = 3
    /\ promises[1] = "fulfilled"
    /\ promises[2] = "rejected"
    /\ promises[3] = "fulfilled"

====
